---- MODULE Spec2Model ----
(***************************************************************************)
(* Model of src/services/geminiService.ts: the angle catalog PROMPTS, the  *)
(* single request generateSingleImage and the batch generateImageViews     *)
(* (fan-out over PROMPTS, Promise.allSettled, reduction of the outcomes).  *)
(*                                                                         *)
(* Strings built by template literals are sequences of chunks, so that a   *)
(* message or a data URL is the concatenation the code computes and the    *)
(* empty string is the empty sequence (the only falsy string).             *)
(***************************************************************************)
EXTENDS Naturals, Sequences, FiniteSets, TLC

\* ------------------------------------------------------------------ bounds
\* Number of invocations of generateImageViews a behaviour may make.
MaxBatches == 2
\* Longest list of content parts in a response given to an isolated request.
MaxParts == 3

\* --------------------------------------------------------------- constants
MODEL_NAME == "gemini-2.5-flash-image"

\* The catalog: one entry per angle, the prompt text abbreviated to its key.
PROMPTS ==
  << [angle |-> "from the right", prompt |-> "camera clockwise to 3 o'clock"],
     [angle |-> "from the left", prompt |-> "camera counter-clockwise to 9 o'clock"],
     [angle |-> "from behind", prompt |-> "camera 180 degrees, from directly behind"],
     [angle |-> "from above", prompt |-> "camera directly above, bird's-eye view"] >>

N == Len(PROMPTS)

\* Source images a caller may pass (base64Image, mimeType).
SourceImages ==
  { [base64 |-> "AAAA", mimeType |-> "image/png"],
    [base64 |-> "BBBB", mimeType |-> "image/jpeg"] }

NoImage == [base64 |-> "", mimeType |-> ""]

\* ---------------------------------------------------- values of the program
\* A rejection reason: an Error carries a message (possibly empty); any other
\* thrown value (undefined, a string, a number) has no message property.
ErrorOf(msg) == [hasMessage |-> TRUE, message |-> msg]
NonErrorValue == [hasMessage |-> FALSE, message |-> <<>>]
NoReason == [hasMessage |-> FALSE, message |-> <<>>]

\* The state of a promise / an entry of the array Promise.allSettled yields.
Pending == [status |-> "pending", value |-> <<>>, reason |-> NoReason]
Fulfilled(v) == [status |-> "fulfilled", value |-> v, reason |-> NoReason]
Rejected(r) == [status |-> "rejected", value |-> <<>>, reason |-> r]
Undefined == [status |-> "undefined", value |-> <<>>, reason |-> NoReason]

\* Content parts of a response.
TextPart == [hasInline |-> FALSE, mimeType |-> "", data |-> "", text |-> "ok"]
InlinePart(mime, bytes) ==
  [hasInline |-> TRUE, mimeType |-> mime, data |-> bytes, text |-> ""]

\* What ai.models.generateContent produces: it raises, or it returns a
\* response whose candidates list is absent/empty or holds one candidate
\* (the request sets no candidateCount), whose content may be absent.
Raises(r) ==
  [arrived |-> TRUE, raises |-> TRUE, reason |-> r, candidates |-> <<>>]
Response(cands) ==
  [arrived |-> TRUE, raises |-> FALSE, reason |-> NoReason, candidates |-> cands]
Candidate(parts) == [hasContent |-> TRUE, parts |-> parts]
EmptyCandidate == [hasContent |-> FALSE, parts |-> <<>>]
NoReply ==
  [arrived |-> FALSE, raises |-> FALSE, reason |-> NoReason, candidates |-> <<>>]

\* ------------------------------------------------------ generateSingleImage
\* Faulty variant: the payload declares a fixed media type.
PayloadFixedMimeType(base64Image, mimeType, prompt) ==
  [model |-> MODEL_NAME, data |-> base64Image, mimeType |-> "image/jpeg",
   text |-> prompt, responseModalities |-> <<"IMAGE">>]

\* The request payload of lines 76-94.
Payload(base64Image, mimeType, prompt) ==
  [model |-> MODEL_NAME, data |-> base64Image, mimeType |-> mimeType,
   text |-> prompt, responseModalities |-> <<"IMAGE">>]

\* The image the endpoint renders for a payload (take tells apart several
\* images returned in one response).
Rendering(payload, take) ==
  [of |-> payload.data, view |-> payload.text, take |-> take]

\* `data:${imageMimeType};base64,${base64Bytes}` (line 100).
DataUrl(imageMimeType, base64Bytes) ==
  <<"data:", imageMimeType, ";base64,", base64Bytes>>

\* Faulty variant: the message names the first catalog entry's prompt.
NoImageMessageOfFirstPrompt(prompt) ==
  <<"Image generation failed for prompt: \"", PROMPTS[1].prompt, "\"">>

\* `Image generation failed for prompt: "${prompt}"` (line 104).
NoImageMessage(prompt) ==
  <<"Image generation failed for prompt: \"", prompt, "\"">>

\* response.candidates?.[0]?.content?.parts || [] (line 96).
ContentParts(response) ==
  IF Len(response.candidates) = 0 THEN <<>>
  ELSE IF ~response.candidates[1].hasContent THEN <<>>
  ELSE response.candidates[1].parts

\* Faulty variant: the last inline part is taken instead of the first.
RECURSIVE ScanPartsLast(_, _)
ScanPartsLast(parts, prompt) ==
  IF parts = <<>> THEN Rejected(ErrorOf(NoImageMessage(prompt)))
  ELSE LET part == parts[Len(parts)]
       IN  IF part.hasInline
             THEN Fulfilled(DataUrl(part.mimeType, part.data))
             ELSE ScanPartsLast(SubSeq(parts, 1, Len(parts) - 1), prompt)

\* The loop of lines 96-102 followed by the throw of line 104: the outcome
\* of the promise once the response is in.
RECURSIVE ScanParts(_, _)
ScanParts(parts, prompt) ==
  IF parts = <<>> THEN Rejected(ErrorOf(NoImageMessage(prompt)))
  ELSE LET part == Head(parts)
       IN  IF part.hasInline
             THEN Fulfilled(DataUrl(part.mimeType, part.data))
             ELSE ScanParts(Tail(parts), prompt)

\* generateSingleImage after its await (lines 76, 96-104): a raised error
\* rejects the promise with that reason, a response is scanned for parts.
SettleSingleImage(reply, prompt) ==
  IF reply.raises THEN Rejected(reply.reason)
  ELSE ScanParts(ContentParts(reply), prompt)

\* ------------------------------------------------------- generateImageViews
\* Faulty variant: outcomes are stored in the order of completion.
FirstPendingSlot(res) ==
  CHOOSE k \in 1..Len(res) :
    res[k].status = "pending" /\ \A h \in 1..(k - 1) : res[h].status # "pending"

RecordByCompletion(res, i, outcome) ==
  [res EXCEPT ![FirstPendingSlot(res)] = outcome]

\* Promise.allSettled (line 110): the result array has one slot per input
\* promise, filled at the promise's index when that promise settles.
RecordOutcome(res, i, outcome) == [res EXCEPT ![i] = outcome]

\* Faulty variant (Promise.all): the first rejection ends the wait.
SettledFailFast(res) ==
  \/ \E i \in 1..Len(res) : res[i].status = "rejected"
  \/ \A i \in 1..Len(res) : res[i].status = "fulfilled"

\* Faulty variant: a rejected promise is never counted as settled.
SettledOnlyByFulfilment(res) ==
  \A i \in 1..Len(res) : res[i].status = "fulfilled"

\* Promise.allSettled resolves once every input promise has settled.
AllSettled(res) == \A i \in 1..Len(res) : res[i].status # "pending"

\* Faulty variant: the successful images are collected back to front.
RECURSIVE SuccessfulImagesReversed(_)
SuccessfulImagesReversed(res) ==
  IF res = <<>> THEN <<>>
  ELSE IF Head(res).status = "fulfilled"
         THEN Append(SuccessfulImagesReversed(Tail(res)), Head(res).value)
         ELSE SuccessfulImagesReversed(Tail(res))

\* results.filter(fulfilled).map(value) (lines 112-114).
RECURSIVE SuccessfulImages(_)
SuccessfulImages(res) ==
  IF res = <<>> THEN <<>>
  ELSE IF Head(res).status = "fulfilled"
         THEN <<Head(res).value>> \o SuccessfulImages(Tail(res))
         ELSE SuccessfulImages(Tail(res))

\* Faulty variant: any failed request makes the batch fail.
BatchFailsOnAnyFailure(successfulImages) == Len(successfulImages) < N

\* successfulImages.length === 0 (line 116).
BatchFails(successfulImages) == Len(successfulImages) = 0

\* Faulty variant: the last rejected result is taken.
RECURSIVE LastError(_)
LastError(res) ==
  IF res = <<>> THEN Undefined
  ELSE IF res[Len(res)].status = "rejected" THEN res[Len(res)]
  ELSE LastError(SubSeq(res, 1, Len(res) - 1))

\* results.find(result => result.status === 'rejected') (line 117).
RECURSIVE FirstError(_)
FirstError(res) ==
  IF res = <<>> THEN Undefined
  ELSE IF Head(res).status = "rejected" THEN Head(res)
  ELSE FirstError(Tail(res))

GenericMessage == <<"All image generation requests failed.">>

\* Faulty variant: the reason's message is used without the fallback.
ErrorMessageNoFallback(firstError) ==
  IF firstError.status = "rejected" THEN firstError.reason.message ELSE <<>>

\* firstError?.reason?.message || "All image generation requests failed."
\* (line 118): undefined and the empty string are falsy.
ErrorMessage(firstError) ==
  IF /\ firstError.status = "rejected"
     /\ firstError.reason.hasMessage
     /\ firstError.reason.message # <<>>
    THEN firstError.reason.message
    ELSE GenericMessage

\* ------------------------------------------------------------------- state
VARIABLES
  pc,             \* where generateImageViews is: idle, mapping (line 108),
                  \* awaiting (line 110), resolved or rejected (settled)
  source,         \* its arguments base64Image, mimeType
  requests,       \* payloads handed to ai.models.generateContent, in order
  replies,        \* what the endpoint produced for each request, once in
  imagePromises,  \* the promises PROMPTS.map has returned so far
  results,        \* the array Promise.allSettled fills in
  settleOrder,    \* indices of the requests in the order they settled
  returned,       \* the value generateImageViews resolved with
  thrown,         \* the Error generateImageViews rejected with
  batches,        \* invocations of generateImageViews so far
  probe,          \* an isolated generateSingleImage call on a given reply
  previous,       \* the arguments of the invocation before this one
  dispatched,     \* calls of ai.models.generateContent made so far
  uploadedImage,  \* App state: the uploaded image, NoImage for null
  generatedImages, \* App state: the images on display
  isLoading,      \* App state
  error,          \* App state: the error on display, NullError for null
  reading,        \* files a FileReader is reading
  inflight        \* calls of generateImageViews by the App not yet settled

\* The state of the App component and of what it has started.
appVars == <<uploadedImage, generatedImages, isLoading, error, reading, inflight>>

vars == <<pc, source, requests, replies, imagePromises, results, settleOrder,
          returned, thrown, batches, probe, previous, dispatched, appVars>>

NoError == [raised |-> FALSE, message |-> <<>>]
NewError(msg) == [raised |-> TRUE, message |-> msg]

NoProbe == [prompt |-> "", reply |-> NoReply, outcome |-> Pending]

\* The App's error state: null, or a message (useState<string | null>,
\* line 136).
NullError == [isNull |-> TRUE, message |-> <<>>]
ErrorText(msg) == [isNull |-> FALSE, message |-> msg]

\* The App as first rendered (lines 133-136): nothing uploaded, nothing
\* generated, not loading, no error; nothing being read or generated.
AppInit ==
  /\ uploadedImage = NoImage
  /\ generatedImages = <<>>
  /\ isLoading = FALSE
  /\ error = NullError
  /\ reading = {}
  /\ inflight = <<>>

\* What the endpoint may produce for a payload: an Error with a message, an
\* Error with an empty message, a thrown non-Error value, a response without
\* any inline image, a response whose parts carry two inline images.
EndpointReplies(payload) ==
  { Raises(ErrorOf(<<"quota exceeded">>)),
    Raises(ErrorOf(<<>>)),
    Raises(NonErrorValue),
    Response(<<Candidate(<<TextPart>>)>>),
    Response(<<Candidate(<<TextPart,
                           InlinePart("image/png", Rendering(payload, 1)),
                           InlinePart("image/webp", Rendering(payload, 2))>>)>>) }

Init ==
  /\ pc = "idle"
  /\ source = NoImage
  /\ requests = <<>>
  /\ replies = <<>>
  /\ imagePromises = <<>>
  /\ results = <<>>
  /\ settleOrder = <<>>
  /\ returned = <<>>
  /\ thrown = NoError
  /\ batches = 0
  /\ probe = NoProbe
  /\ previous = NoImage
  /\ dispatched = 0
  /\ AppInit

\* Faulty variant: an invocation on the image of the batch that has just
\* resolved hands back that batch's images without calling the endpoint.
CallCached(image) ==
  /\ pc \in {"idle", "resolved", "rejected"}
  /\ batches < MaxBatches
  /\ batches' = batches + 1
  /\ previous' = source
  /\ IF pc = "resolved" /\ image = source
       THEN UNCHANGED <<pc, source, requests, replies, imagePromises, results,
                        settleOrder, returned, thrown>>
       ELSE /\ pc' = "mapping"
            /\ source' = image
            /\ requests' = <<>>
            /\ replies' = <<>>
            /\ imagePromises' = <<>>
            /\ results' = <<>>
            /\ settleOrder' = <<>>
            /\ returned' = <<>>
            /\ thrown' = NoError
  /\ UNCHANGED <<probe, dispatched, appVars>>

\* A caller invokes generateImageViews(base64Image, mimeType) (line 107);
\* every invocation starts from fresh locals.
Call(image) ==
  /\ pc \in {"idle", "resolved", "rejected"}
  /\ batches < MaxBatches
  /\ pc' = "mapping"
  /\ source' = image
  /\ requests' = <<>>
  /\ replies' = <<>>
  /\ imagePromises' = <<>>
  /\ results' = <<>>
  /\ settleOrder' = <<>>
  /\ returned' = <<>>
  /\ thrown' = NoError
  /\ batches' = batches + 1
  /\ previous' = source
  /\ UNCHANGED <<probe, dispatched, appVars>>

\* Faulty variant: a request is dispatched only once the endpoint has
\* answered the one before it.
DispatchSequential ==
  /\ pc = "mapping"
  /\ Len(imagePromises) < N
  /\ Len(requests) > 0 => replies[Len(requests)].arrived
  /\ LET p == PROMPTS[Len(imagePromises) + 1]
     IN  /\ requests' = Append(requests,
                               Payload(source.base64, source.mimeType, p.prompt))
         /\ replies' = Append(replies, NoReply)
         /\ imagePromises' = Append(imagePromises, Pending)
  /\ dispatched' = dispatched + 1
  /\ UNCHANGED <<pc, source, results, settleOrder, returned, thrown, batches,
                 probe, previous, appVars>>

\* One iteration of PROMPTS.map (line 108): generateSingleImage runs up to
\* its await (lines 74-94), handing the payload to the endpoint, and returns
\* a pending promise.
Dispatch ==
  /\ pc = "mapping"
  /\ Len(imagePromises) < N
  /\ LET p == PROMPTS[Len(imagePromises) + 1]
     IN  /\ requests' = Append(requests,
                               Payload(source.base64, source.mimeType, p.prompt))
         /\ replies' = Append(replies, NoReply)
         /\ imagePromises' = Append(imagePromises, Pending)
  /\ dispatched' = dispatched + 1
  /\ UNCHANGED <<pc, source, results, settleOrder, returned, thrown, batches,
                 probe, previous, appVars>>

\* await Promise.allSettled(imagePromises) (line 110): generateImageViews
\* suspends on the array the map produced.
AwaitAll ==
  /\ pc = "mapping"
  /\ Len(imagePromises) = N
  /\ pc' = "awaiting"
  /\ results' = [i \in 1..Len(imagePromises) |-> Pending]
  /\ UNCHANGED <<source, requests, replies, imagePromises, settleOrder,
                 returned, thrown, batches, probe, previous, dispatched, appVars>>

\* The endpoint answers request i, at any time after its dispatch.
EndpointReply(i, reply) ==
  /\ pc \in {"mapping", "awaiting"}
  /\ i \in 1..Len(requests)
  /\ ~replies[i].arrived
  /\ reply \in EndpointReplies(requests[i])
  /\ replies' = [replies EXCEPT ![i] = reply]
  /\ UNCHANGED <<pc, source, requests, imagePromises, results, settleOrder,
                 returned, thrown, batches, probe, previous, dispatched, appVars>>

\* The endpoint answers request i with one of the replies open to it.
EndpointAnswers(i) ==
  /\ i \in 1..Len(requests)
  /\ \E reply \in EndpointReplies(requests[i]) : EndpointReply(i, reply)

\* generateSingleImage i resumes after its await (lines 96-104) and settles
\* its promise; Promise.allSettled records the outcome. Continuations run
\* only once the synchronous map has finished.
Resume(i) ==
  /\ pc = "awaiting"
  /\ i \in 1..Len(imagePromises)
  /\ replies[i].arrived
  /\ imagePromises[i].status = "pending"
  /\ LET outcome == SettleSingleImage(replies[i], requests[i].text)
     IN  /\ imagePromises' = [imagePromises EXCEPT ![i] = outcome]
         /\ results' = RecordOutcome(results, i, outcome)
  /\ settleOrder' = Append(settleOrder, i)
  /\ UNCHANGED <<pc, source, requests, replies, returned, thrown, batches,
                 probe, previous, dispatched, appVars>>

\* Lines 112-121, once Promise.allSettled has resolved.
Reduce ==
  /\ pc = "awaiting"
  /\ AllSettled(results)
  /\ LET successfulImages == SuccessfulImages(results)
     IN  IF BatchFails(successfulImages)
           THEN /\ pc' = "rejected"
                /\ thrown' = NewError(ErrorMessage(FirstError(results)))
                /\ UNCHANGED returned
           ELSE /\ pc' = "resolved"
                /\ returned' = successfulImages
                /\ UNCHANGED thrown
  /\ UNCHANGED <<source, requests, replies, imagePromises, results,
                 settleOrder, batches, probe, previous, dispatched, appVars>>

Next ==
  \/ \E image \in SourceImages : Call(image)
  \/ Dispatch
  \/ AwaitAll
  \/ \E i \in 1..N : EndpointAnswers(i)
  \/ \E i \in 1..N : Resume(i)
  \/ Reduce

Spec == Init /\ [][Next]_vars

\* An execution model in which the endpoint's answers are eventually
\* delivered (the transport delivers a response or raises, e.g. on its own
\* timeout) and the event loop runs every continuation that is ready.
FairSpec ==
  /\ Spec
  /\ WF_vars(Dispatch)
  /\ WF_vars(AwaitAll)
  /\ \A i \in 1..N : WF_vars(EndpointAnswers(i))
  /\ \A i \in 1..N : WF_vars(Resume(i))
  /\ WF_vars(Reduce)

\* ----------------------------------------- generateSingleImage in isolation
\* Every reply the endpoint may give to one request: it raises, or returns a
\* response without candidates, with a candidate without content, or with
\* any list of at most MaxParts text and inline parts.
PartsFor(payload) ==
  { TextPart,
    InlinePart("image/png", Rendering(payload, 1)),
    InlinePart("image/webp", Rendering(payload, 2)) }

ProbeReplies(payload) ==
  { Raises(ErrorOf(<<"quota exceeded">>)), Raises(ErrorOf(<<>>)),
    Raises(NonErrorValue), Response(<<>>), Response(<<EmptyCandidate>>) }
  \cup { Response(<<Candidate(parts)>>) :
           parts \in UNION { [1..n -> PartsFor(payload)] : n \in 0..MaxParts } }

ProbePayload(prompt) == Payload("AAAA", "image/png", prompt)

InitSingle ==
  /\ pc = "idle"
  /\ source = NoImage
  /\ requests = <<>>
  /\ replies = <<>>
  /\ imagePromises = <<>>
  /\ results = <<>>
  /\ settleOrder = <<>>
  /\ returned = <<>>
  /\ thrown = NoError
  /\ batches = 0
  /\ previous = NoImage
  /\ dispatched = 0
  /\ AppInit
  /\ \E k \in 1..N : \E reply \in ProbeReplies(ProbePayload(PROMPTS[k].prompt)) :
       probe = [prompt |-> PROMPTS[k].prompt, reply |-> reply, outcome |-> Pending]

\* generateSingleImage(base64Image, mimeType, prompt) run to its end on the
\* reply of the endpoint (lines 73-105).
generateSingleImage ==
  /\ probe.reply.arrived
  /\ probe.outcome.status = "pending"
  /\ probe' = [probe EXCEPT !.outcome = SettleSingleImage(probe.reply, probe.prompt)]
  /\ UNCHANGED <<pc, source, requests, replies, imagePromises, results,
                 settleOrder, returned, thrown, batches, previous,
                 dispatched, appVars>>

SingleSpec == InitSingle /\ [][generateSingleImage]_vars

\* ---------------------------------------------------------------------- App
\* Files the user may pick in the file input.
Files ==
  { [type |-> "image/png", bytes |-> "AAAA"],
    [type |-> "image/jpeg", bytes |-> "BBBB"] }

\* reader.readAsDataURL(file) (line 153): "data:<type>;base64,<bytes>".
ReadAsDataURL(file) == <<"data:", file.type, ";base64", ",", file.bytes>>

\* Index of the first "," chunk at or after position k, Len + 1 if none.
RECURSIVE CommaFrom(_, _)
CommaFrom(chunks, k) ==
  IF k > Len(chunks) THEN Len(chunks) + 1
  ELSE IF chunks[k] = "," THEN k
  ELSE CommaFrom(chunks, k + 1)

\* const [header, base64] = result.split(',') and the media type the header
\* declares, 'image/jpeg' if it declares none (lines 144-146).
ParseDataURL(result) ==
  LET c1 == CommaFrom(result, 1)
      c2 == CommaFrom(result, c1 + 1)
      header == SubSeq(result, 1, c1 - 1)
      base64 == SubSeq(result, c1 + 1, c2 - 1)
      declared == IF Len(header) >= 3 /\ header[1] = "data:" THEN header[2] ELSE ""
  IN  [base64 |-> IF base64 = <<>> THEN "" ELSE base64[1],
       mimeType |-> IF declared # "" THEN declared ELSE "image/jpeg"]

\* handleImageUpload (lines 138-155): a FileReader starts reading the file.
handleImageUpload(file) ==
  /\ file \notin reading
  /\ reading' = reading \cup {file}
  /\ UNCHANGED <<uploadedImage, generatedImages, isLoading, error, inflight>>
  /\ UNCHANGED <<pc, source, requests, replies, imagePromises, results,
                 settleOrder, returned, thrown, batches, probe, previous,
                 dispatched>>

\* reader.onloadend after a successful read (lines 142-149).
ReaderLoadEnd(file) ==
  /\ file \in reading
  /\ reading' = reading \ {file}
  /\ uploadedImage' = ParseDataURL(ReadAsDataURL(file))
  /\ generatedImages' = <<>>
  /\ error' = NullError
  /\ UNCHANGED <<isLoading, inflight>>
  /\ UNCHANGED <<pc, source, requests, replies, imagePromises, results,
                 settleOrder, returned, thrown, batches, probe, previous,
                 dispatched>>

\* reader.onerror (lines 150-152); the loadend event that follows finds a
\* null result, so onloadend throws at result.split and sets nothing.
ReaderError(file) ==
  /\ file \in reading
  /\ reading' = reading \ {file}
  /\ error' = ErrorText(<<"Failed to read the file.">>)
  /\ UNCHANGED <<uploadedImage, generatedImages, isLoading, inflight>>
  /\ UNCHANGED <<pc, source, requests, replies, imagePromises, results,
                 settleOrder, returned, thrown, batches, probe, previous,
                 dispatched>>

\* Faulty variant: the Generate button stays enabled while loading.
GenerateEnabledWhileLoading == uploadedImage # NoImage

\* disabled={!uploadedImage || isLoading} of the Generate button (line 195).
GenerateEnabled == uploadedImage # NoImage /\ ~isLoading

\* The Reset button is rendered when an image is uploaded (line 207) and
\* disabled={isLoading} (line 210).
ResetEnabled == uploadedImage # NoImage /\ ~isLoading

\* Faulty variant: the handler does not check for an uploaded image.
handleGenerateClickUnguarded ==
  /\ Len(inflight) < MaxBatches
  /\ isLoading' = TRUE
  /\ error' = NullError
  /\ inflight' = Append(inflight, uploadedImage)
  /\ UNCHANGED <<uploadedImage, generatedImages, reading>>
  /\ UNCHANGED <<pc, source, requests, replies, imagePromises, results,
                 settleOrder, returned, thrown, batches, probe, previous,
                 dispatched>>

\* handleGenerateClick up to its await (lines 157-166): without an image it
\* sets the error and returns; otherwise it sets isLoading, clears the error
\* and calls generateImageViews on the uploaded image, whose N requests are
\* dispatched before the call returns its promise.
handleGenerateClick ==
  /\ IF uploadedImage = NoImage
       THEN /\ error' = ErrorText(<<"Please upload an image first.">>)
            /\ UNCHANGED <<isLoading, inflight>>
       ELSE /\ Len(inflight) < MaxBatches
            /\ isLoading' = TRUE
            /\ error' = NullError
            /\ inflight' = Append(inflight, uploadedImage)
  /\ UNCHANGED <<uploadedImage, generatedImages, reading>>
  /\ UNCHANGED <<pc, source, requests, replies, imagePromises, results,
                 settleOrder, returned, thrown, batches, probe, previous,
                 dispatched>>

\* A click on the Generate button (line 194), which a disabled button does
\* not deliver.
GenerateClick == GenerateEnabled /\ handleGenerateClick

\* The answers the endpoint may give to the requests 1..n of a batch on an
\* image.
RECURSIVE AnswersFor(_, _)
AnswersFor(image, n) ==
  IF n = 0 THEN {<<>>}
  ELSE { Append(answers, reply) :
           answers \in AnswersFor(image, n - 1),
           reply \in EndpointReplies(
                       Payload(image.base64, image.mimeType, PROMPTS[n].prompt)) }

\* generateImageViews (lines 107-122) as a function of the answers to its N
\* requests: the images it resolves with, or the message it rejects with.
generateImageViews(base64Image, mimeType, answers) ==
  LET settled == [i \in 1..N |->
                    SettleSingleImage(
                      answers[i],
                      Payload(base64Image, mimeType, PROMPTS[i].prompt).text)]
      successfulImages == SuccessfulImages(settled)
  IN  IF BatchFails(successfulImages)
        THEN [ok |-> FALSE, images |-> <<>>,
              message |-> ErrorMessage(FirstError(settled))]
        ELSE [ok |-> TRUE, images |-> successfulImages, message |-> <<>>]

\* Without k-th element.
Without(seq, k) == SubSeq(seq, 1, k - 1) \o SubSeq(seq, k + 1, Len(seq))

\* What a call of generateImageViews on an image may settle with, over all
\* the answers the endpoint may give to its N requests.
BatchOutcomes(image) ==
  { generateImageViews(image.base64, image.mimeType, answers) :
      answers \in AnswersFor(image, N) }

\* `Failed to generate images. ${err.message || 'Please try again.'}`
\* (line 170).
FailureText(message) ==
  <<"Failed to generate images. ">> \o
  (IF message # <<>> THEN message ELSE <<"Please try again.">>)

\* Faulty variant: isLoading is reset only when the batch resolved.
handleGenerateSettlesNoFinally(k, outcome) ==
  /\ k \in 1..Len(inflight)
  /\ IF outcome.ok
       THEN /\ generatedImages' = outcome.images
            /\ returned' = outcome.images
            /\ thrown' = NoError
            /\ isLoading' = FALSE
            /\ UNCHANGED error
       ELSE /\ error' = ErrorText(FailureText(outcome.message))
            /\ returned' = <<>>
            /\ thrown' = NewError(outcome.message)
            /\ UNCHANGED <<generatedImages, isLoading>>
  /\ inflight' = Without(inflight, k)
  /\ UNCHANGED <<uploadedImage, reading>>
  /\ UNCHANGED <<pc, source, requests, replies, imagePromises, results,
                 settleOrder, batches, probe, previous, dispatched>>

\* handleGenerateClick after its await (lines 166-173): the call it made
\* has settled; the images replace the list, or the error's message is
\* reported; finally isLoading is reset.
handleGenerateSettles(k, outcome) ==
  /\ k \in 1..Len(inflight)
  /\ IF outcome.ok
       THEN /\ generatedImages' = outcome.images
            /\ returned' = outcome.images
            /\ thrown' = NoError
            /\ UNCHANGED error
       ELSE /\ error' = ErrorText(FailureText(outcome.message))
            /\ returned' = <<>>
            /\ thrown' = NewError(outcome.message)
            /\ UNCHANGED generatedImages
  /\ isLoading' = FALSE
  /\ inflight' = Without(inflight, k)
  /\ UNCHANGED <<uploadedImage, reading>>
  /\ UNCHANGED <<pc, source, requests, replies, imagePromises, results,
                 settleOrder, batches, probe, previous, dispatched>>

\* The images an upload can produce, and the outcomes of a call on each.
UploadableImages == { ParseDataURL(ReadAsDataURL(file)) : file \in Files }

OutcomesOf == [image \in UploadableImages |-> BatchOutcomes(image)]

\* A call in flight settles with one of the outcomes open to it.
GenerateSettles ==
  \E k \in 1..Len(inflight) : \E outcome \in OutcomesOf[inflight[k]] :
    handleGenerateSettles(k, outcome)

\* handleReset (lines 176-184).
handleReset ==
  /\ uploadedImage' = NoImage
  /\ generatedImages' = <<>>
  /\ error' = NullError
  /\ UNCHANGED <<isLoading, reading, inflight>>
  /\ UNCHANGED <<pc, source, requests, replies, imagePromises, results,
                 settleOrder, returned, thrown, batches, probe, previous,
                 dispatched>>

\* A click on the Reset button (line 209).
ResetClick == ResetEnabled /\ handleReset

\* GeneratedImagesDisplay (lines 262-292): nothing while the list is empty,
\* otherwise each image under the label at its index in the list.
LABELS == <<"From the Right", "From the Left", "From Behind", "From Above">>

GeneratedImagesDisplay ==
  [index \in 1..Len(generatedImages) |->
     [src |-> generatedImages[index], label |-> LABELS[index]]]

\* Events other than a click on Generate.
OtherEvents ==
  \/ \E file \in Files : handleImageUpload(file)
  \/ \E file \in Files : ReaderLoadEnd(file)
  \/ \E file \in Files : ReaderError(file)
  \/ GenerateSettles
  \/ ResetClick

\* The App as the user drives it: clicks reach a handler only through a
\* button that is enabled.
AppNext == GenerateClick \/ OtherEvents

AppSpec == Init /\ [][AppNext]_vars

\* The App with handleGenerateClick called as a function, whatever the
\* rendering of its button.
HandlerNext == handleGenerateClick \/ OtherEvents

HandlerSpec == Init /\ [][HandlerNext]_vars

\* ================================================================ properties
\* Vocabulary of the properties, stated on the requests themselves (their
\* promises and the endpoint's replies), not on the arrays the batch builds.
Settled == pc \in {"resolved", "rejected"}
Issued == 1..Len(imagePromises)
Succeeded == { i \in Issued : imagePromises[i].status = "fulfilled" }
Failed == { i \in Issued : imagePromises[i].status = "rejected" }
\* Position of a successful request among the successful ones, catalog order.
Rank(i) == Cardinality({ h \in Succeeded : h <= i })
\* A reason that carries a non-empty message.
HasText(reason) == reason.hasMessage /\ reason.message # <<>>
\* The response holds a content part with inline image data.
HasInlineImage(reply) ==
  /\ reply.arrived /\ ~reply.raises
  /\ \E c \in 1..Len(reply.candidates) :
       /\ reply.candidates[c].hasContent
       /\ \E k \in 1..Len(reply.candidates[c].parts) :
            reply.candidates[c].parts[k].hasInline
\* The data URL of the first inline part, in part order, of such a response.
FirstInlineImage(reply) ==
  LET parts == reply.candidates[1].parts
      k == CHOOSE k \in 1..Len(parts) :
             parts[k].hasInline /\ \A h \in 1..(k - 1) : ~parts[h].hasInline
  IN  <<"data:", parts[k].mimeType, ";base64,", parts[k].data>>

\* C1: generateImageViews settles (resolves or rejects) only after every one
\* of the N dispatched requests has settled, whatever the completion order
\* and the mix of successes and failures.
C1_SettlesOnlyAfterAll ==
  Settled =>
    /\ Len(imagePromises) = N
    /\ \A i \in 1..N : imagePromises[i].status \in {"fulfilled", "rejected"}
    /\ Len(settleOrder) = N

\* C1 witness: a batch that resolved although the first request to settle
\* had failed and the last one to settle had succeeded.
C1_Witness ==
  /\ pc = "resolved"
  /\ Len(settleOrder) = N
  /\ imagePromises[settleOrder[1]].status = "rejected"
  /\ imagePromises[settleOrder[2]].status = "fulfilled"
  /\ imagePromises[settleOrder[N]].status = "rejected"

\* C2: if k of the N requests (1 <= k <= N) succeed, the batch resolves with
\* exactly k images, the image of each successful request standing at that
\* request's rank among the successful ones in catalog order, regardless of
\* the order of completion.
C2_ImagesInCatalogOrder ==
  pc = "resolved" =>
    /\ Len(returned) = Cardinality(Succeeded)
    /\ Cardinality(Succeeded) \in 1..N
    /\ \A i \in Succeeded : returned[Rank(i)] = FirstInlineImage(replies[i])

\* C2 witness: Left and Above complete first, only Right and Above succeed,
\* and the result is [imageForRight, imageForAbove].
C2_Witness ==
  /\ pc = "resolved"
  /\ {settleOrder[1], settleOrder[2]} = {2, 4}
  /\ Succeeded = {1, 4}
  /\ Len(returned) = 2
  /\ returned[1][4].view = PROMPTS[1].prompt
  /\ returned[2][4].view = PROMPTS[4].prompt

\* C3: the batch rejects only when none of the N requests succeeded; with at
\* least one success it resolves, with the images alone: no error is raised
\* and nothing of a failed request is handed to the caller.
C3_RejectsOnlyOnTotalFailure ==
  /\ pc = "rejected" => Succeeded = {}
  /\ (Settled /\ Succeeded # {}) =>
       /\ pc = "resolved"
       /\ thrown = NoError
       /\ \A j \in 1..Len(returned) :
            \E i \in Succeeded : returned[j] = imagePromises[i].value

\* C3 witness: a resolved batch in which requests failed with an Error, with
\* a non-Error value and for want of an image.
C3_Witness ==
  /\ pc = "resolved"
  /\ Cardinality(Failed) = N - 1
  /\ \E i \in Failed : replies[i].raises /\ HasText(replies[i].reason)
  /\ \E i \in Failed : replies[i].raises /\ ~replies[i].reason.hasMessage
  /\ \E i \in Failed : ~replies[i].raises

\* C4: when all N requests fail, the batch rejects with one error whose
\* message is that of the reason of the first request in catalog order (not
\* of the first to fail in time); the generic message stands in only when
\* that reason carries no message.
C4_FirstReasonInCatalogOrder ==
  pc = "rejected" =>
    /\ thrown.raised
    /\ Failed = 1..N
    /\ thrown.message = IF HasText(imagePromises[1].reason)
                          THEN imagePromises[1].reason.message
                          ELSE GenericMessage

\* C4 witness: all four requests failed with messages of their own, the
\* first in catalog order failed last in time, and its message is reported.
C4_Witness ==
  /\ pc = "rejected"
  /\ settleOrder[N] = 1
  /\ \A i \in 1..N : HasText(imagePromises[i].reason)
  /\ \A i \in 2..N : imagePromises[i].reason # imagePromises[1].reason
  /\ thrown.message = imagePromises[1].reason.message

\* C5 as stated: if none of the N requests succeeds, the batch's error
\* message is non-empty and is the message of at least one of the underlying
\* failure reasons, whatever the kind of those reasons.
C5_MessageDerivedFromAReason ==
  pc = "rejected" =>
    /\ thrown.message # <<>>
    /\ \E i \in Failed :
         /\ imagePromises[i].reason.hasMessage
         /\ thrown.message = imagePromises[i].reason.message

\* C5 amended: if none of the N requests succeeds, the batch's error message
\* is non-empty; it is the message of an underlying failure reason when the
\* first request in catalog order failed with a reason that carries a
\* non-empty message, and the generic message otherwise.
C5_NonEmptyDerivedOrGeneric ==
  pc = "rejected" =>
    /\ thrown.raised
    /\ thrown.message # <<>>
    /\ HasText(imagePromises[1].reason) =>
         /\ thrown.message # GenericMessage
         /\ \E i \in Failed : thrown.message = imagePromises[i].reason.message
    /\ ~HasText(imagePromises[1].reason) => thrown.message = GenericMessage

\* C5 witness: every request failed, the first with an Error whose message
\* is empty, another with an Error that has a message, and the batch
\* reports the generic message.
C5_Witness ==
  /\ pc = "rejected"
  /\ replies[1].raises /\ replies[1].reason = ErrorOf(<<>>)
  /\ \E i \in 2..N : HasText(imagePromises[i].reason)
  /\ \E i \in 2..N : imagePromises[i].reason = NonErrorValue
  /\ thrown.message = GenericMessage

\* C6: all N requests are dispatched before generateImageViews waits on any
\* of them: no request has settled, and the batch is not yet waiting, until
\* the N-th is dispatched, and while requests remain to be dispatched the
\* next dispatch is possible whatever has become of the earlier requests.
C6_FullFanOutBeforeWaiting ==
  /\ pc = "awaiting" => Len(requests) = N
  /\ (\E i \in Issued : imagePromises[i].status # "pending") => Len(requests) = N
  /\ (pc = "mapping" /\ Len(requests) < N) => ENABLED Dispatch

\* C6 witness: during the fan-out the first request has already failed, the
\* second is still in flight, and further requests remain to be dispatched.
C6_Witness ==
  /\ pc = "mapping"
  /\ Len(requests) = 2
  /\ replies[1].arrived /\ replies[1].raises
  /\ ~replies[2].arrived

\* C7: when a batch completes, as many outcomes were produced as catalog
\* entries were issued, and every issued request has exactly one outcome, a
\* success or a failure, standing at the index of its catalog entry.
C7_OneOutcomePerRequest ==
  Settled =>
    /\ Len(results) = N
    /\ Len(requests) = N
    /\ \A i \in 1..N :
         /\ results[i] = imagePromises[i]
         /\ requests[i].text = PROMPTS[i].prompt
         /\ \/ results[i].status = "fulfilled" /\ results[i].value # <<>>
                                               /\ results[i].reason = NoReason
            \/ results[i].status = "rejected" /\ results[i].value = <<>>
         /\ Cardinality({ k \in 1..Len(settleOrder) : settleOrder[k] = i }) = 1

\* C7 witness: a completed batch whose requests settled in reverse catalog
\* order, some with a success and some with a failure.
C7_Witness ==
  /\ Settled
  /\ settleOrder = <<4, 3, 2, 1>>
  /\ Succeeded = {2, 3}
  /\ Failed = {1, 4}

C9_SuccessIffInlinePart ==
  probe.outcome.status # "pending" =>
    /\ probe.outcome.status \in {"fulfilled", "rejected"}
    /\ probe.outcome.status = "fulfilled" <=> HasInlineImage(probe.reply)
    /\ HasInlineImage(probe.reply) =>
         probe.outcome.value = FirstInlineImage(probe.reply)
    /\ probe.reply.raises => probe.outcome = Rejected(probe.reply.reason)

\* C9 witness: a response whose parts are a text part, then a webp image,
\* then a png image, answered with the webp image.
C9_Witness ==
  /\ probe.outcome.status = "fulfilled"
  /\ Len(probe.reply.candidates) = 1
  /\ Len(probe.reply.candidates[1].parts) = 3
  /\ ~probe.reply.candidates[1].parts[1].hasInline
  /\ probe.reply.candidates[1].parts[2].mimeType = "image/webp"
  /\ probe.reply.candidates[1].parts[3].mimeType = "image/png"
  /\ probe.outcome.value[2] = "image/webp"

\* C10: when the response to a request holds no inline image, the failure
\* reason of that request names the prompt of that request's catalog entry,
\* not another entry's; so when no request of a batch gets an image the
\* batch's error names the first catalog entry's prompt.
C10_ReasonNamesOwnPrompt ==
  /\ \A i \in Issued :
       (/\ imagePromises[i].status # "pending"
        /\ ~replies[i].raises
        /\ ~HasInlineImage(replies[i])) =>
         /\ imagePromises[i].status = "rejected"
         /\ imagePromises[i].reason.hasMessage
         /\ Len(imagePromises[i].reason.message) = 3
         /\ imagePromises[i].reason.message[2] = PROMPTS[i].prompt
         /\ \A j \in 1..N :
              j # i => imagePromises[i].reason.message[2] # PROMPTS[j].prompt
  /\ (pc = "rejected" /\ \A i \in 1..N : ~replies[i].raises) =>
       thrown.message =
         <<"Image generation failed for prompt: \"", PROMPTS[1].prompt, "\"">>

\* C10 witness: no request of the batch got an image, the first catalog
\* entry's request was the last to fail, and the batch names its prompt.
C10_Witness ==
  /\ pc = "rejected"
  /\ \A i \in 1..N : ~replies[i].raises
  /\ settleOrder[N] = 1
  /\ thrown.message[2] = PROMPTS[1].prompt

\* C11: invoking generateImageViews twice with the same source image issues
\* 2*N endpoint calls: every invocation starts with nothing kept of the one
\* before, makes N calls of its own, and settles on the answers to those N
\* calls alone.
C11_NoReuseAcrossBatches ==
  /\ batches = 0 => dispatched = 0
  /\ batches > 0 => dispatched + N = batches * N + Len(requests)
  /\ (pc = "mapping" /\ requests = <<>>) =>
       /\ replies = <<>> /\ imagePromises = <<>> /\ results = <<>>
       /\ returned = <<>> /\ thrown = NoError
  /\ Settled =>
       /\ dispatched = batches * N
       /\ \A i \in 1..N :
            /\ replies[i].arrived
            /\ requests[i].data = source.base64
       /\ pc = "resolved" <=> \E i \in 1..N : HasInlineImage(replies[i])
       /\ \A j \in 1..Len(returned) :
            \E i \in 1..N : /\ HasInlineImage(replies[i])
                            /\ returned[j] = FirstInlineImage(replies[i])

\* C11 witness: a second invocation on the same source image has made its
\* own N calls, 2*N in all, and failed on their answers.
C11_Witness ==
  /\ batches = 2
  /\ previous = source
  /\ source \in SourceImages
  /\ pc = "rejected"
  /\ dispatched = 2 * N

\* C12: the i-th request of a batch carries the source image passed to
\* generateImageViews (bytes and media type) and the prompt of the i-th
\* catalog entry, one request per entry, and the source image stays what it
\* was when the first request was dispatched.
C12_RequestCarriesImageAndPrompt ==
  /\ Len(requests) <= N
  /\ \A i \in 1..Len(requests) :
       /\ requests[i].data = source.base64
       /\ requests[i].mimeType = source.mimeType
       /\ requests[i].text = PROMPTS[i].prompt
       /\ requests[i].model = MODEL_NAME
  /\ \A i, j \in 1..Len(requests) : i # j => requests[i].text # requests[j].text
  /\ Settled => Len(requests) = N

\* C12 witness: a settled batch on the png image whose four requests carry
\* that image and the prompts right, left, behind, above in this order.
C12_Witness ==
  /\ Settled
  /\ source = [base64 |-> "AAAA", mimeType |-> "image/png"]
  /\ [i \in 1..N |-> requests[i].text]
       = <<"camera clockwise to 3 o'clock",
           "camera counter-clockwise to 9 o'clock",
           "camera 180 degrees, from directly behind",
           "camera directly above, bird's-eye view">>
  /\ \A i \in 1..N : requests[i].mimeType = "image/png"

\* C13: a missing source image never reaches the batch generator: no call of
\* generateImageViews is made on a null image, and handleGenerateClick run
\* while no image is uploaded sets the error 'Please upload an image first.',
\* starts no call (hence no endpoint request) and leaves isLoading and the
\* generated images as they are.
C13_MissingImageStartsNoBatch ==
  /\ [](\A k \in 1..Len(inflight) : inflight[k] # NoImage)
  /\ [][(uploadedImage = NoImage /\ handleGenerateClick) =>
          /\ error' = ErrorText(<<"Please upload an image first.">>)
          /\ inflight' = inflight
          /\ isLoading' = isLoading
          /\ generatedImages' = generatedImages
          /\ uploadedImage' = NoImage]_vars

\* C13 witness: the handler has run without an uploaded image.
C13_Witness ==
  /\ uploadedImage = NoImage
  /\ error = ErrorText(<<"Please upload an image first.">>)
  /\ inflight = <<>>
  /\ ~isLoading
  /\ generatedImages = <<>>

\* C14 as stated: every generated image on display stands under the label
\* of the catalog entry whose request produced it.
C14_ImageUnderLabelOfItsEntry ==
  \A index \in 1..Len(GeneratedImagesDisplay) :
    \E i \in 1..N :
      /\ GeneratedImagesDisplay[index].src[4].view = PROMPTS[i].prompt
      /\ GeneratedImagesDisplay[index].label = LABELS[i]

\* C15 as stated: whenever generated images are on display, they were
\* generated from the image that is currently uploaded.
C15_DisplayedImagesOfUploadedImage ==
  generatedImages # <<>> =>
    /\ uploadedImage # NoImage
    /\ \A j \in 1..Len(generatedImages) :
         generatedImages[j][4].of = uploadedImage.base64

\* C16: at most one call of generateImageViews is in flight at any time:
\* while one is, isLoading is true, neither a click on Generate nor a click
\* on Reset is possible, and the uploaded image has not been reset.
C16_OneBatchInFlight ==
  /\ Len(inflight) <= 1
  /\ inflight # <<>> =>
       /\ isLoading
       /\ ~ENABLED GenerateClick
       /\ ~ENABLED ResetClick
       /\ uploadedImage # NoImage

\* C16 witness: a call is in flight on an image while another image has
\* been uploaded since, and a file is still being read.
C16_Witness ==
  /\ Len(inflight) = 1
  /\ isLoading
  /\ uploadedImage # NoImage
  /\ uploadedImage # inflight[1]
  /\ reading # {}

\* A step in which a call of generateImageViews settles.
Completes == Len(inflight') < Len(inflight)

\* C17 as stated: isLoading is true exactly while a call is in flight; when
\* it settles isLoading becomes false and either the list is replaced by the
\* call's images with error null, or error is set to a message holding the
\* call's error message with the list unchanged.
C17_CompletionLeavesErrorNull ==
  /\ [](isLoading <=> inflight # <<>>)
  /\ [][Completes =>
          /\ isLoading' = FALSE
          /\ \/ /\ thrown' = NoError
                /\ returned' # <<>>
                /\ generatedImages' = returned'
                /\ error' = NullError
             \/ /\ thrown'.raised
                /\ thrown'.message # <<>>
                /\ error' = ErrorText(<<"Failed to generate images. ">>
                                      \o thrown'.message)
                /\ generatedImages' = generatedImages]_vars

\* C17 amended: as stated, except that on success error is left as it is:
\* null, unless a file read failed while the call was in flight.
C17_CompletionLeavesErrorAsIs ==
  /\ [](isLoading <=> inflight # <<>>)
  /\ [][Completes =>
          /\ isLoading' = FALSE
          /\ \/ /\ thrown' = NoError
                /\ returned' # <<>>
                /\ generatedImages' = returned'
                /\ error' = error
                /\ error \in {NullError, ErrorText(<<"Failed to read the file.">>)}
             \/ /\ thrown'.raised
                /\ thrown'.message # <<>>
                /\ error' = ErrorText(<<"Failed to generate images. ">>
                                      \o thrown'.message)
                /\ generatedImages' = generatedImages]_vars

\* C17 witness: a call has resolved, its images are on display, nothing is
\* loading, and the error of a failed file read is still shown.
C17_Witness ==
  /\ ~isLoading
  /\ inflight = <<>>
  /\ thrown = NoError
  /\ returned # <<>>
  /\ generatedImages = returned
  /\ error = ErrorText(<<"Failed to read the file.">>)

====
